---- MODULE Spec2Model ----
\* Checkout (CriarPedido) and payment reconciliation
\* (AtualizarStatusPedidoPorTransacao) of the Ve_Joias store, over the
\* Django-ORM repositories (JoiaRepositoryDjango, PedidoRepositoryDjango,
\* CarrinhoRepositoryDjango) and the MercadoPagoGateway.
\* Money is counted in whole units (Decimal arithmetic is exact).
EXTENDS Integers, Sequences, FiniteSets, TLC

\* ------------------------------------------------------------------
\* Bounds
\* ------------------------------------------------------------------
MaxEstoque == 3
MaxQtd == 2

Joias == {"j1", "j2"}
Clientes == {"u1", "u2"}
Recs == {"r1", "r2"}

Nenhum == "nenhum"

\* Unit prices of the catalogue at start-up.
PrecoInicial == [j \in Joias |-> IF j = "j1" THEN 100 ELSE 200]

\* ------------------------------------------------------------------
\* State
\* ------------------------------------------------------------------
VARIABLES
    estoque,      \* catalog_joia.estoque, committed value per product
    preco,        \* catalog_joia.preco per product
    carrinho,     \* cart rows per customer: sequence of [joia_id, quantidade]
    pedidos,      \* committed order rows, in insertion order
    pc,           \* position of each CriarPedido.execute call
    loc,          \* local variables of each CriarPedido.execute call
    resultado,    \* what each CriarPedido.execute call returned or raised
    gw_chamadas,  \* what processar_pagamento returned or raised, per customer, call by call
    notif,        \* enviar_confirmacao_pedido calls received, per customer and channel
    baixado,      \* units each checkout has taken out of the committed stock
    rpc,          \* position of each AtualizarStatusPedidoPorTransacao.execute call
    rloc,         \* local variables of each reconciliation call
    verificado,   \* what verificar_status returned to each reconciliation call
    escritas,     \* pedido_repo.salvar calls made by each reconciliation call
    notif_aprov,  \* enviar_aprovacao_pagamento calls made, per call and channel
    falha_aprov,  \* which enviar_aprovacao_pagamento calls raised, per call and channel
    ultima_rec,   \* last reconciliation call completed since the last order insert
    manual_res,   \* what the last AtualizarStatusManual.execute call returned or raised
    manual_req,   \* the arguments of the last AtualizarStatusManual.execute call
    webhook_resp, \* HTTP status of the last WebhookMercadoPago.post response
    cart_res,     \* the last cart operation: its request and what it returned or raised
    sessao        \* items of the session cart CartManager keeps

varsRec == <<rpc, rloc, verificado, escritas, notif_aprov, falha_aprov,
            ultima_rec>>

varsExt == <<manual_res, manual_req, webhook_resp, cart_res, sessao>>

vars == <<estoque, preco, carrinho, pedidos, pc, loc, resultado,
          gw_chamadas, notif, baixado, rpc, rloc, verificado, escritas,
          notif_aprov, falha_aprov, ultima_rec, manual_res, manual_req,
          webhook_resp, cart_res, sessao>>

\* ------------------------------------------------------------------
\* Pure helpers
\* ------------------------------------------------------------------
RECURSIVE SomaSubtotais(_)
SomaSubtotais(itens) ==
    IF itens = <<>> THEN 0
    ELSE Head(itens).subtotal + SomaSubtotais(Tail(itens))

\* ItemPedido: snapshot of one cart line at checkout time.
ItemPedido(joia_id, preco_unitario, quantidade) ==
    [joia_id |-> joia_id, preco_unitario |-> preco_unitario,
     quantidade |-> quantidade, subtotal |-> preco_unitario * quantidade]

JoiasDe(itens) == {itens[i].joia_id : i \in 1..Len(itens)}

\* Quantity of product j in a list of lines (0 when absent).
QtdDe(itens, j) ==
    IF \E i \in 1..Len(itens) : itens[i].joia_id = j
    THEN itens[CHOOSE i \in 1..Len(itens) : itens[i].joia_id = j].quantidade
    ELSE 0

\* Carts the cart use cases can leave behind: at most one line per product
\* (unique_together carrinho/joia), every quantity >= 1.
CarrinhoItem(j, q) == [joia_id |-> j, quantidade |-> q]

CarrinhosPossiveis ==
    {<<>>}
    \cup {<<CarrinhoItem(j, q)>> : j \in Joias, q \in 1..MaxQtd}
    \cup {<<CarrinhoItem(par[1], q), CarrinhoItem(par[2], r)>> :
            par \in {x \in Joias \X Joias : x[1] # x[2]},
            q \in 1..MaxQtd, r \in 1..MaxQtd}

\* ------------------------------------------------------------------
\* MercadoPagoGateway
\* ------------------------------------------------------------------
Metodos == {"PIX", "BOLETO", "CARTAO", "OUTRO"}

\* What the provider answers to POST /payments: a payment status, a body
\* that is not a JSON object, a timeout.
RespostasProcessar == {"approved", "pending", "rejected", "corpo_invalido",
                       "timeout"}

\* MercadoPagoGateway._STATUS_MAP.get(mp_status, padrao)
StatusMapGateway(mp_status, padrao) ==
    CASE mp_status = "approved" -> "APROVADO"
      [] mp_status = "pending" -> "PENDENTE"
      [] mp_status = "in_process" -> "PENDENTE"
      [] mp_status = "rejected" -> "REJEITADO"
      [] mp_status = "refunded" -> "ESTORNADO"
      [] mp_status = "cancelled" -> "CANCELADO"
      [] OTHER -> padrao

Transacao(status, ref) == [tipo |-> "ok", status |-> status, ref |-> ref]
Levanta(excecao) == [tipo |-> excecao, status |-> Nenhum, ref |-> Nenhum]

\* _processar_pix / _processar_boleto
ProcessarPixBoleto(resp, ref) ==
    IF resp \in {"timeout", "erro_conexao"} THEN Levanta("PagamentoFalhouError")
    ELSE IF resp = "corpo_invalido" THEN Levanta("Exception")
    ELSE IF resp \in {"pending", "in_process"}
         THEN Transacao(StatusMapGateway(resp, "PENDENTE"), ref)
    ELSE Levanta("PagamentoFalhouError")

\* _processar_cartao
ProcessarCartao(resp, tem_dados, ref) ==
    IF ~tem_dados THEN Levanta("PagamentoFalhouError")
    ELSE IF resp \in {"timeout", "erro_conexao"} THEN Levanta("PagamentoFalhouError")
    ELSE IF resp = "corpo_invalido" THEN Levanta("Exception")
    ELSE Transacao(StatusMapGateway(resp, "REJEITADO"), ref)

\* processar_pagamento: tem_dados stands for the card token (CARTAO) or the
\* billing address (BOLETO) being present in dados.
ProcessarPagamento(metodo, resp, tem_dados, ref) ==
    CASE metodo = "PIX" -> ProcessarPixBoleto(resp, ref)
      [] metodo = "BOLETO" ->
            IF ~tem_dados THEN Levanta("PagamentoFalhouError")
            ELSE ProcessarPixBoleto(resp, ref)
      [] metodo = "CARTAO" -> ProcessarCartao(resp, tem_dados, ref)
      [] OTHER -> Levanta("PagamentoFalhouError")

\* ------------------------------------------------------------------
\* Initial state
\* ------------------------------------------------------------------
LocInicial ==
    [itens_carrinho |-> <<>>, idx |-> 0, itens_pedido |-> <<>>,
     total_calculado |-> 0, joias_compradas |-> [j \in Joias |-> -1],
     status |-> Nenhum, transacao_id |-> Nenhum, tipo_pagamento |-> Nenhum,
     lido |-> [j \in Joias |-> -1], travadas |-> {}, joia_lida |-> -1]

RLocInicial ==
    [transacao_status |-> Nenhum, pedido |-> Nenhum, status_antigo |-> Nenhum,
     novo_status_pedido |-> Nenhum]

\* No webhook notification has been answered yet.
SemWebhook == [resposta |-> Nenhum, topico |-> Nenhum, referencia |-> Nenhum]

\* No manual status update has been asked for yet.
SemPedidoManual == [pedido_id |-> 0, novo_status |-> Nenhum]

\* No cart operation has run yet.
SemOperacao ==
    [op |-> Nenhum, joia |-> Nenhum, quantidade |-> 0, tipo |-> Nenhum,
     salvou |-> FALSE]

SemResultado == [tipo |-> "pendente", joia |-> Nenhum]
Resultado(tipo) == [tipo |-> tipo, joia |-> Nenhum]

Init ==
    /\ estoque \in [Joias -> 0..MaxEstoque]
    /\ preco = PrecoInicial
    /\ carrinho \in [Clientes -> CarrinhosPossiveis]
    /\ pedidos = <<>>
    /\ pc = [c \in Clientes |-> "inicio"]
    /\ loc = [c \in Clientes |-> LocInicial]
    /\ resultado = [c \in Clientes |-> SemResultado]
    /\ gw_chamadas = [c \in Clientes |-> <<>>]
    /\ notif = [c \in Clientes |-> [email |-> 0, whatsapp |-> 0]]
    /\ baixado = [c \in Clientes |-> [j \in Joias |-> 0]]
    /\ rpc = [r \in Recs |-> "inicio"]
    /\ rloc = [r \in Recs |-> RLocInicial]
    /\ verificado = [r \in Recs |-> Nenhum]
    /\ escritas = [r \in Recs |-> 0]
    /\ notif_aprov = [r \in Recs |-> [whatsapp |-> 0, email |-> 0]]
    /\ falha_aprov = [r \in Recs |-> [whatsapp |-> FALSE, email |-> FALSE]]
    /\ ultima_rec = Nenhum
    /\ manual_res = Nenhum
    /\ manual_req = SemPedidoManual
    /\ webhook_resp = SemWebhook
    /\ cart_res = SemOperacao
    /\ sessao = <<>>

\* ------------------------------------------------------------------
\* CriarPedido.execute, one action per access to shared state
\* ------------------------------------------------------------------
Termina(c, res) ==
    /\ pc' = [pc EXCEPT ![c] = "fim"]
    /\ resultado' = [resultado EXCEPT ![c] = res]
    /\ loc' = [loc EXCEPT ![c] = LocInicial]

\* carrinho_repo.buscar_por_usuario and the empty-cart test; BuscarCarrinho_SemTeste
\* is the variant that tests the cart object instead of its items.
BuscarCarrinho_SemTeste(c) ==
    /\ pc[c] = "inicio"
    /\ pc' = [pc EXCEPT ![c] = IF carrinho[c] = <<>> THEN "pagamento" ELSE "snapshot"]
    /\ loc' = [loc EXCEPT ![c].itens_carrinho = carrinho[c], ![c].idx = 1]
    /\ UNCHANGED resultado
    /\ UNCHANGED <<estoque, preco, carrinho, pedidos, gw_chamadas, notif, baixado>>
    /\ UNCHANGED varsRec
    /\ UNCHANGED varsExt

BuscarCarrinho(c) ==
    /\ pc[c] = "inicio"
    /\ IF carrinho[c] = <<>>
       THEN Termina(c, Resultado("CarrinhoVazioError"))
       ELSE /\ pc' = [pc EXCEPT ![c] = "snapshot"]
            /\ loc' = [loc EXCEPT ![c].itens_carrinho = carrinho[c], ![c].idx = 1]
            /\ UNCHANGED resultado
    /\ UNCHANGED <<estoque, preco, carrinho, pedidos, gw_chamadas, notif, baixado>>
    /\ UNCHANGED varsRec
    /\ UNCHANGED varsExt

\* The stock test of the snapshot loop (joia.estoque < item_carrinho.quantidade);
\* EstoqueInsuficiente_Estrito is the off-by-one variant.
EstoqueInsuficiente_Estrito(joia_estoque, quantidade) == joia_estoque + 1 < quantidade

EstoqueInsuficiente(joia_estoque, quantidade) == joia_estoque < quantidade

\* One turn of the snapshot loop: repo_joias.buscar_por_id, the stock test,
\* the ItemPedido snapshot at the current price.
SnapshotItem(c) ==
    /\ pc[c] = "snapshot"
    /\ LET item == loc[c].itens_carrinho[loc[c].idx]
           j == item.joia_id
           snap == ItemPedido(j, preco[j], item.quantidade)
       IN IF EstoqueInsuficiente(estoque[j], item.quantidade)
          THEN Termina(c, [tipo |-> "EstoqueInsuficienteError", joia |-> j])
          ELSE /\ loc' = [loc EXCEPT
                     ![c].itens_pedido = Append(@, snap),
                     ![c].total_calculado = @ + snap.subtotal,
                     ![c].joias_compradas[j] = estoque[j],
                     ![c].idx = @ + 1]
               /\ pc' = [pc EXCEPT ![c] =
                     IF loc[c].idx = Len(loc[c].itens_carrinho)
                     THEN "pagamento" ELSE "snapshot"]
               /\ UNCHANGED resultado
    /\ UNCHANGED <<estoque, preco, carrinho, pedidos, gw_chamadas, notif, baixado>>
    /\ UNCHANGED varsRec
    /\ UNCHANGED varsExt

\* pagamento_gateway.processar_pagamento inside try/except PagamentoFalhouError,
\* then status and transacao_id are copied from the transaction.
Pagamento(c) ==
    /\ pc[c] = "pagamento"
    /\ \E metodo \in Metodos, resp \in RespostasProcessar, tem_dados \in BOOLEAN :
         LET t == ProcessarPagamento(metodo, resp, tem_dados, c)
         IN /\ gw_chamadas' = [gw_chamadas EXCEPT ![c] = Append(@, t)]
            /\ CASE t.tipo = "ok" ->
                      /\ loc' = [loc EXCEPT ![c].status = t.status,
                                            ![c].transacao_id = t.ref,
                                            ![c].tipo_pagamento = metodo]
                      /\ pc' = [pc EXCEPT ![c] = "salvar"]
                      /\ UNCHANGED resultado
                 [] t.tipo = "PagamentoFalhouError" ->
                      Termina(c, Resultado("PagamentoFalhouError"))
                 [] OTHER ->
                      Termina(c, Resultado("ExcecaoGateway"))
    /\ UNCHANGED <<estoque, preco, carrinho, pedidos, notif, baixado>>
    /\ UNCHANGED varsRec
    /\ UNCHANGED varsExt

\* A row of catalog_joia is locked while a transaction that has updated it
\* is still open (PostgreSQL row lock taken by UPDATE).
TravadaPorOutro(c, j) ==
    \E d \in Clientes \ {c} : pc[d] = "baixa" /\ j \in loc[d].travadas

\* The delivery address and the contact phone a customer checks out with.
EnderecoDe(c) == [cep |-> IF c = "u1" THEN "01000-000" ELSE "20000-000",
                  numero |-> IF c = "u1" THEN "10" ELSE "20"]

TelefoneDe(c) == IF c = "u1" THEN "+5511" ELSE "+5521"

\* The order row criar_pedido inserts.
PedidoDe(c) ==
    [id |-> Len(pedidos) + 1,
     usuario_id |-> c,
     itens |-> loc[c].itens_pedido,
     total_pedido |-> loc[c].total_calculado,
     status |-> loc[c].status,
     transacao_id |-> loc[c].transacao_id,
     tipo_pagamento |-> loc[c].tipo_pagamento,
     endereco_entrega |-> EnderecoDe(c),
     telefone_whatsapp |-> TelefoneDe(c)]

\* pedido_repo.salvar -> criar_pedido, opening of the atomic block: the order
\* and its lines are inserted (visible at commit) and in_bulk reads the stock
\* of the ordered products.
SalvarInicio(c) ==
    /\ pc[c] = "salvar"
    /\ loc' = [loc EXCEPT
          ![c].lido = [j \in Joias |->
                         IF j \in JoiasDe(loc[c].itens_pedido) THEN estoque[j] ELSE -1],
          ![c].idx = 1]
    /\ pc' = [pc EXCEPT ![c] = "baixa"]
    /\ UNCHANGED <<estoque, preco, carrinho, pedidos, resultado, gw_chamadas,
                   notif, baixado>>
    /\ UNCHANGED varsRec
    /\ UNCHANGED varsExt

\* The except clause around salvar/atualizar_estoque/limpar_carrinho:
\* any exception becomes Exception("Falha na persistencia ...").
FalhaPersistencia(c) == Termina(c, Resultado("Exception"))

\* The CHECK (estoque >= 0) PostgreSQL keeps for a PositiveIntegerField.
CheckEstoque(valor) == valor >= 0

\* One turn of the stock loop of criar_pedido: the test on the value read by
\* in_bulk, then UPDATE ... SET estoque = estoque - quantidade. The last turn
\* is followed by the commit of the atomic block.
BaixaItem(c) ==
    /\ pc[c] = "baixa"
    /\ LET item == loc[c].itens_pedido[loc[c].idx]
           j == item.joia_id
           q == item.quantidade
           feitas == loc[c].travadas \cup {j}
       IN IF loc[c].lido[j] < q
          THEN /\ FalhaPersistencia(c)
               /\ UNCHANGED <<estoque, pedidos, baixado, ultima_rec>>
          ELSE /\ ~TravadaPorOutro(c, j)
               /\ IF ~CheckEstoque(estoque[j] - q)
                  THEN /\ FalhaPersistencia(c)
                       /\ UNCHANGED <<estoque, pedidos, baixado, ultima_rec>>
                  ELSE IF loc[c].idx < Len(loc[c].itens_pedido)
                  THEN /\ loc' = [loc EXCEPT ![c].travadas = feitas,
                                             ![c].idx = @ + 1]
                       /\ UNCHANGED <<pc, resultado, estoque, pedidos, baixado,
                                      ultima_rec>>
                  ELSE /\ estoque' = [k \in Joias |->
                             IF k \in feitas
                             THEN estoque[k] - QtdDe(loc[c].itens_pedido, k)
                             ELSE estoque[k]]
                       /\ baixado' = [baixado EXCEPT ![c] = [k \in Joias |->
                             IF k \in feitas
                             THEN @[k] + QtdDe(loc[c].itens_pedido, k)
                             ELSE @[k]]]
                       /\ pedidos' = Append(pedidos, PedidoDe(c))
                       /\ ultima_rec' = Nenhum
                       /\ loc' = [loc EXCEPT ![c].travadas = {}, ![c].idx = 1]
                       /\ pc' = [pc EXCEPT ![c] = "estoque_ler"]
                       /\ UNCHANGED resultado
    /\ UNCHANGED <<preco, carrinho, gw_chamadas, notif, rpc, rloc, verificado,
                   escritas, notif_aprov, falha_aprov>>
    /\ UNCHANGED varsExt

\* Two open transactions each waiting for a row the other has updated:
\* PostgreSQL aborts one of them (deadlock detected), the atomic block rolls back.
Deadlock(c) ==
    /\ pc[c] = "baixa"
    /\ LET j == loc[c].itens_pedido[loc[c].idx].joia_id
       IN \E d \in Clientes \ {c} :
            /\ pc[d] = "baixa"
            /\ j \in loc[d].travadas
            /\ loc[d].itens_pedido[loc[d].idx].joia_id \in loc[c].travadas
    /\ FalhaPersistencia(c)
    /\ UNCHANGED <<estoque, preco, carrinho, pedidos, gw_chamadas, notif, baixado>>
    /\ UNCHANGED varsRec
    /\ UNCHANGED varsExt

\* JoiaRepositoryDjango.atualizar_estoque, first half: objects.get and the test.
AtualizarEstoqueLer(c) ==
    /\ pc[c] = "estoque_ler"
    /\ LET item == loc[c].itens_pedido[loc[c].idx]
           j == item.joia_id
       IN IF estoque[j] >= item.quantidade
          THEN /\ loc' = [loc EXCEPT ![c].joia_lida = estoque[j]]
               /\ pc' = [pc EXCEPT ![c] = "estoque_gravar"]
               /\ UNCHANGED resultado
          ELSE FalhaPersistencia(c)
    /\ UNCHANGED <<estoque, preco, carrinho, pedidos, gw_chamadas, notif, baixado>>
    /\ UNCHANGED varsRec
    /\ UNCHANGED varsExt

\* JoiaRepositoryDjango.atualizar_estoque, second half: joia.save() writes the
\* value computed from the earlier read.
AtualizarEstoqueGravar(c) ==
    /\ pc[c] = "estoque_gravar"
    /\ LET item == loc[c].itens_pedido[loc[c].idx]
           j == item.joia_id
           q == item.quantidade
       IN /\ ~TravadaPorOutro(c, j)
          /\ estoque' = [estoque EXCEPT ![j] = loc[c].joia_lida - q]
          /\ baixado' = [baixado EXCEPT ![c][j] = @ + q]
          /\ loc' = [loc EXCEPT ![c].joia_lida = -1, ![c].idx = @ + 1]
          /\ pc' = [pc EXCEPT ![c] =
                IF loc[c].idx = Len(loc[c].itens_pedido)
                THEN "limpar" ELSE "estoque_ler"]
    /\ UNCHANGED <<preco, carrinho, pedidos, resultado, gw_chamadas, notif>>
    /\ UNCHANGED varsRec
    /\ UNCHANGED varsExt

\* carrinho_repo.limpar_carrinho; LimparCarrinho_Parcial is the variant that
\* deletes only the first row of the cart.
LimparCarrinho_Parcial(c) ==
    /\ pc[c] = "limpar"
    /\ carrinho' = [carrinho EXCEPT ![c] = Tail(@)]
    /\ pc' = [pc EXCEPT ![c] = "email"]
    /\ UNCHANGED <<estoque, preco, pedidos, loc, resultado, gw_chamadas,
                   notif, baixado>>
    /\ UNCHANGED varsRec
    /\ UNCHANGED varsExt

LimparCarrinho(c) ==
    /\ pc[c] = "limpar"
    /\ carrinho' = [carrinho EXCEPT ![c] = <<>>]
    /\ pc' = [pc EXCEPT ![c] = "email"]
    /\ UNCHANGED <<estoque, preco, pedidos, loc, resultado, gw_chamadas,
                   notif, baixado>>
    /\ UNCHANGED varsRec
    /\ UNCHANGED varsExt

\* email_service.enviar_confirmacao_pedido, first statement of the
\* notification try block: when it raises, the block is left.
EnviarEmail(c) ==
    /\ pc[c] = "email"
    /\ notif' = [notif EXCEPT ![c].email = @ + 1]
    /\ \E falha \in BOOLEAN :
         IF falha
         THEN Termina(c, Resultado("ok"))
         ELSE /\ pc' = [pc EXCEPT ![c] = "whatsapp"]
              /\ UNCHANGED <<loc, resultado>>
    /\ UNCHANGED <<estoque, preco, carrinho, pedidos, gw_chamadas, baixado>>
    /\ UNCHANGED varsRec
    /\ UNCHANGED varsExt

\* whatsapp_gateway.enviar_confirmacao_pedido, then return pedido_final.
EnviarWhatsapp(c) ==
    /\ pc[c] = "whatsapp"
    /\ notif' = [notif EXCEPT ![c].whatsapp = @ + 1]
    /\ Termina(c, Resultado("ok"))
    /\ UNCHANGED <<estoque, preco, carrinho, pedidos, gw_chamadas, baixado>>
    /\ UNCHANGED varsRec
    /\ UNCHANGED varsExt

\* ------------------------------------------------------------------
\* AtualizarStatusPedidoPorTransacao.execute
\* ------------------------------------------------------------------
\* The transaction reference the webhook calls carry.
RefReconciliada == "u1"

\* What the provider answers to GET /payments/<id>.
RespostasVerificar == {"approved", "pending", "rejected", "refunded",
                       "cancelled", "timeout"}

\* MercadoPagoGateway.verificar_status
VerificarStatus(resp, ref) ==
    IF resp = "timeout" THEN Levanta("Exception")
    ELSE Transacao(StatusMapGateway(resp, "PENDENTE"), ref)

\* AtualizarStatusPedidoPorTransacao._STATUS_MAP.get(status_pagamento, padrao);
\* StatusMapPedido_ComCancelado is the table with a row for the gateway's
\* CANCELADO, StatusMapPedido_SemEstorno the table without its ESTORNADO row.
StatusMapPedido_ComCancelado(status_pagamento, padrao) ==
    CASE status_pagamento = "APROVADO" -> "PAGO"
      [] status_pagamento = "PENDENTE" -> "PENDENTE"
      [] status_pagamento = "REJEITADO" -> "CANCELADO"
      [] status_pagamento = "ESTORNADO" -> "CANCELADO"
      [] status_pagamento = "CANCELADO" -> "CANCELADO"
      [] OTHER -> padrao

StatusMapPedido_SemEstorno(status_pagamento, padrao) ==
    CASE status_pagamento = "APROVADO" -> "PAGO"
      [] status_pagamento = "PENDENTE" -> "PENDENTE"
      [] status_pagamento = "REJEITADO" -> "CANCELADO"
      [] OTHER -> padrao

StatusMapPedido(status_pagamento, padrao) ==
    CASE status_pagamento = "APROVADO" -> "PAGO"
      [] status_pagamento = "PENDENTE" -> "PENDENTE"
      [] status_pagamento = "REJEITADO" -> "CANCELADO"
      [] status_pagamento = "ESTORNADO" -> "CANCELADO"
      [] OTHER -> padrao

\* PedidoMapper.to_entity: the entity built from an order row (the
\* transaction is not mapped). ToEntity_SemTelefone is the variant that
\* leaves the contact phone out.
ToEntity_SemTelefone(model) ==
    [id |-> model.id,
     usuario_id |-> model.usuario_id,
     status |-> model.status,
     total_pedido |-> model.total_pedido,
     tipo_pagamento |-> model.tipo_pagamento,
     endereco_entrega |-> model.endereco_entrega,
     telefone_whatsapp |-> Nenhum,
     itens |-> model.itens]

ToEntity(model) ==
    [id |-> model.id,
     usuario_id |-> model.usuario_id,
     status |-> model.status,
     total_pedido |-> model.total_pedido,
     tipo_pagamento |-> model.tipo_pagamento,
     endereco_entrega |-> model.endereco_entrega,
     telefone_whatsapp |-> model.telefone_whatsapp,
     itens |-> model.itens]

\* PedidoRepositoryDjango.buscar_por_transacao_id
ExistePedidoDaTransacao(ref) ==
    \E i \in 1..Len(pedidos) : pedidos[i].transacao_id = ref

BuscarPorTransacaoId(ref) ==
    ToEntity(pedidos[CHOOSE i \in 1..Len(pedidos) : pedidos[i].transacao_id = ref])

RTermina(r) ==
    /\ rpc' = [rpc EXCEPT ![r] = "fim"]
    /\ rloc' = [rloc EXCEPT ![r] = RLocInicial]
    /\ ultima_rec' = r

\* The call goes on after step 1 when verificar_status returned; the except
\* clause returns ("Nao prossegue"). Prossegue_Sempre is the except clause
\* without its return.
Prossegue_Sempre(t) == TRUE

Prossegue(t) == t.tipo = "ok"

\* Step 1: pagamento_gateway.verificar_status inside try/except Exception.
Verificar(r) ==
    /\ rpc[r] = "inicio"
    /\ \E resp \in RespostasVerificar :
         LET t == VerificarStatus(resp, RefReconciliada)
         IN IF Prossegue(t)
            THEN /\ verificado' = [verificado EXCEPT ![r] =
                                      IF t.tipo = "ok" THEN t.status ELSE "falha"]
                 /\ rloc' = [rloc EXCEPT ![r].transacao_status = t.status]
                 /\ rpc' = [rpc EXCEPT ![r] = "buscar"]
                 /\ UNCHANGED ultima_rec
            ELSE /\ verificado' = [verificado EXCEPT ![r] = "falha"]
                 /\ RTermina(r)
    /\ UNCHANGED <<estoque, preco, carrinho, pedidos, pc, loc, resultado,
                   gw_chamadas, notif, baixado, escritas, notif_aprov, falha_aprov>>
    /\ UNCHANGED varsExt

\* The test of step 4 (pedido.status != novo_status_pedido); StatusMudou_Sempre
\* is the variant that always saves.
StatusMudou_Sempre(status_atual, novo_status) == TRUE

StatusMudou(status_atual, novo_status) == status_atual # novo_status

\* Steps 2 to 4, up to the assignment pedido.status = novo_status_pedido.
BuscarPedido(r) ==
    /\ rpc[r] = "buscar"
    /\ LET pedido == BuscarPorTransacaoId(RefReconciliada)
       IN IF ~ExistePedidoDaTransacao(RefReconciliada)
          THEN RTermina(r)
          ELSE LET novo == StatusMapPedido(rloc[r].transacao_status, pedido.status)
               IN IF StatusMudou(pedido.status, novo)
                  THEN /\ rloc' = [rloc EXCEPT
                             ![r].status_antigo = pedido.status,
                             ![r].novo_status_pedido = novo,
                             ![r].pedido = [pedido EXCEPT !.status = novo]]
                       /\ rpc' = [rpc EXCEPT ![r] = "salvar"]
                       /\ UNCHANGED ultima_rec
                  ELSE RTermina(r)
    /\ UNCHANGED <<estoque, preco, carrinho, pedidos, pc, loc, resultado,
                   gw_chamadas, notif, baixado, verificado, escritas,
                   notif_aprov, falha_aprov>>
    /\ UNCHANGED varsExt

\* PedidoRepositoryDjango.salvar on an existing order: PedidoMapper.to_model
\* copies the entity's fields over the row, model.save() writes it.
\* SalvarPedido_PrecoAtual is the variant that recomputes the total from the
\* catalog.
SalvarPedido_PrecoAtual(linhas, entidade) ==
    [i \in 1..Len(linhas) |->
        IF linhas[i].id = entidade.id
        THEN [linhas[i] EXCEPT
                !.status = entidade.status,
                !.total_pedido = SomaSubtotais(
                    [k \in 1..Len(linhas[i].itens) |->
                        [subtotal |-> preco[linhas[i].itens[k].joia_id]
                                      * linhas[i].itens[k].quantidade]])]
        ELSE linhas[i]]

SalvarPedido(linhas, entidade) ==
    [i \in 1..Len(linhas) |->
        IF linhas[i].id = entidade.id
        THEN [linhas[i] EXCEPT
                !.status = entidade.status,
                !.total_pedido = entidade.total_pedido,
                !.tipo_pagamento = entidade.tipo_pagamento,
                !.telefone_whatsapp = entidade.telefone_whatsapp,
                !.endereco_entrega = entidade.endereco_entrega]
        ELSE linhas[i]]

\* The test of step 5 (novo_status_pedido == "PAGO"); NotificaAprovacao_Sempre
\* is the variant that notifies after every write.
NotificaAprovacao_Sempre(novo_status_pedido) == TRUE

NotificaAprovacao(novo_status_pedido) == novo_status_pedido = "PAGO"

\* Step 4, pedido_repo.salvar(pedido).
SalvarStatus(r) ==
    /\ rpc[r] = "salvar"
    /\ pedidos' = SalvarPedido(pedidos, rloc[r].pedido)
    /\ escritas' = [escritas EXCEPT ![r] = @ + 1]
    /\ IF NotificaAprovacao(rloc[r].novo_status_pedido)
       THEN /\ rpc' = [rpc EXCEPT ![r] = "whatsapp"]
            /\ UNCHANGED <<rloc, ultima_rec>>
       ELSE RTermina(r)
    /\ UNCHANGED <<estoque, preco, carrinho, pc, loc, resultado, gw_chamadas,
                   notif, baixado, verificado, notif_aprov, falha_aprov>>
    /\ UNCHANGED varsExt

\* Step 5, whatsapp_gateway.enviar_aprovacao_pagamento in its own try: the
\* call may raise, the except clause prints and the method goes on.
AprovacaoWhatsapp(r) ==
    /\ rpc[r] = "whatsapp"
    /\ notif_aprov' = [notif_aprov EXCEPT ![r].whatsapp = @ + 1]
    /\ \E falha \in BOOLEAN :
         falha_aprov' = [falha_aprov EXCEPT ![r].whatsapp = falha]
    /\ rpc' = [rpc EXCEPT ![r] = "email"]
    /\ UNCHANGED <<estoque, preco, carrinho, pedidos, pc, loc, resultado,
                   gw_chamadas, notif, baixado, rloc, verificado, escritas,
                   ultima_rec>>
    /\ UNCHANGED varsExt

\* Step 5, email_service.enviar_aprovacao_pagamento in its own try.
AprovacaoEmail(r) ==
    /\ rpc[r] = "email"
    /\ notif_aprov' = [notif_aprov EXCEPT ![r].email = @ + 1]
    /\ \E falha \in BOOLEAN :
         falha_aprov' = [falha_aprov EXCEPT ![r].email = falha]
    /\ RTermina(r)
    /\ UNCHANGED <<estoque, preco, carrinho, pedidos, pc, loc, resultado,
                   gw_chamadas, notif, baixado, verificado, escritas>>
    /\ UNCHANGED varsExt

\* ------------------------------------------------------------------
\* AtualizarStatusManual.execute, WebhookMercadoPago.post, catalog edits
\* ------------------------------------------------------------------
\* STATUS_VALIDOS_ComDevolvido is the list with one more status.
STATUS_VALIDOS_ComDevolvido ==
    {"PAGO", "PENDENTE", "PROCESSANDO", "ENVIADO", "ENTREGUE", "CANCELADO",
     "DEVOLVIDO"}

STATUS_VALIDOS ==
    {"PAGO", "PENDENTE", "PROCESSANDO", "ENVIADO", "ENTREGUE", "CANCELADO"}

\* The statuses a caller may ask for: the valid ones, one in lower case,
\* one that is no order status.
StatusPedidos == STATUS_VALIDOS \cup {"pago", "DEVOLVIDO"}

\* novo_status.upper()
Maiusculas(texto) == IF texto = "pago" THEN "PAGO" ELSE texto

\* Order ids a caller may name: the id of the order of this run and one
\* that no order has.
IdsPedido == {1, 2}

\* PedidoRepositoryDjango.buscar_por_id
ExistePedido(pedido_id) == \E i \in 1..Len(pedidos) : pedidos[i].id = pedido_id

BuscarPorId(pedido_id) ==
    ToEntity(pedidos[CHOOSE i \in 1..Len(pedidos) : pedidos[i].id = pedido_id])

\* The test status_antigo == novo_status_upper; MesmoStatus_Nunca is the
\* variant that always saves.
MesmoStatus_Nunca(status_antigo, novo_status_upper) == FALSE

MesmoStatus(status_antigo, novo_status_upper) == status_antigo = novo_status_upper

\* AtualizarStatusManual.execute as a function of the stored rows: what it
\* returns or raises, and the rows it leaves.
ExecutarStatusManual(pedido_id, novo_status) ==
    LET novo_status_upper == Maiusculas(novo_status)
    IN IF novo_status_upper \notin STATUS_VALIDOS
       THEN [tipo |-> "StatusInvalidoError", linhas |-> pedidos]
       ELSE IF ~ExistePedido(pedido_id)
       THEN [tipo |-> "PedidoNaoEncontradoError", linhas |-> pedidos]
       ELSE LET pedido == BuscarPorId(pedido_id)
            IN IF MesmoStatus(pedido.status, novo_status_upper)
               THEN [tipo |-> "inalterado", linhas |-> pedidos]
               ELSE [tipo |-> "ok",
                     linhas |-> SalvarPedido(pedidos,
                                   [pedido EXCEPT !.status = novo_status_upper])]

AtualizarStatusManual(pedido_id, novo_status) ==
    LET r == ExecutarStatusManual(pedido_id, novo_status)
    IN /\ pedidos' = r.linhas
       /\ manual_res' = r.tipo
       /\ manual_req' = [pedido_id |-> pedido_id, novo_status |-> novo_status]
       /\ ultima_rec' = IF r.tipo = "ok" THEN Nenhum ELSE ultima_rec
       /\ UNCHANGED <<estoque, preco, carrinho, pc, loc, resultado, gw_chamadas,
                      notif, baixado, rpc, rloc, verificado, escritas,
                      notif_aprov, falha_aprov, webhook_resp, cart_res, sessao>>

\* What a notification of the provider may carry: data['topic'], and
\* data['resource'] or data['data']['id'] (the payment id, or nothing).
Topicos == {"payment", "merchant_order", Nenhum}
Recursos == {RefReconciliada, Nenhum}

\* WebhookMercadoPago.post. The payment id is handed to
\* atualizar_status_manual as pedido_id; pk is the order id that payment id
\* reads as (0 when no order has it).
Webhook(topic, resource_id, pk) ==
    IF topic = "payment" /\ resource_id # Nenhum
    THEN LET r == ExecutarStatusManual(pk, "PROCESSANDO")
         IN /\ pedidos' = r.linhas
            /\ manual_res' = r.tipo
            /\ manual_req' = [pedido_id |-> pk, novo_status |-> "PROCESSANDO"]
            /\ ultima_rec' = IF r.tipo = "ok" THEN Nenhum ELSE ultima_rec
            /\ webhook_resp' = [resposta |-> "HTTP_200_OK", topico |-> topic,
                                referencia |-> resource_id]
            /\ UNCHANGED <<estoque, preco, carrinho, pc, loc, resultado,
                           gw_chamadas, notif, baixado, rpc, rloc, verificado,
                           escritas, notif_aprov, falha_aprov, cart_res, sessao>>
    ELSE /\ webhook_resp' = [resposta |-> "HTTP_400_BAD_REQUEST",
                             topico |-> topic, referencia |-> resource_id]
         /\ UNCHANGED <<estoque, preco, carrinho, pedidos, pc, loc, resultado,
                        gw_chamadas, notif, baixado, rpc, rloc, verificado,
                        escritas, notif_aprov, falha_aprov, ultima_rec,
                        manual_res, manual_req, cart_res,
                        sessao>>

\* Prices the catalog may give a product.
Precos == {100, 200}

\* JoiaRepositoryDjango.salvar with a new price.
AlterarPreco(j, p) ==
    /\ preco[j] # p
    /\ preco' = [preco EXCEPT ![j] = p]
    /\ UNCHANGED <<estoque, carrinho, pedidos, pc, loc, resultado, gw_chamadas,
                   notif, baixado>>
    /\ UNCHANGED varsRec
    /\ UNCHANGED varsExt

\* ------------------------------------------------------------------
\* Cart use cases over CarrinhoRepositoryDjango
\* ------------------------------------------------------------------
\* A product id no catalog row has.
JoiaInexistente == "jx"

\* What a cart operation leaves in cart_res.
Operacao(op, joia_id, quantidade, tipo, salvou) ==
    [op |-> op, joia |-> joia_id, quantidade |-> quantidade, tipo |-> tipo,
     salvou |-> salvou]

\* next((item for item in carrinho.itens if item.joia_id == joia_id), None)
TemItem(itens, joia_id) == \E i \in 1..Len(itens) : itens[i].joia_id = joia_id

\* The quantity AdicionarItemAoCarrinho validates and stores: the request
\* plus the quantity already in the cart. QuantidadeTotalSolicitada_SoPedido
\* is the variant that looks at the request alone.
QuantidadeTotalSolicitada_SoPedido(itens, joia_id, quantidade) == quantidade

QuantidadeTotalSolicitada(itens, joia_id, quantidade) ==
    IF TemItem(itens, joia_id)
    THEN quantidade + QtdDe(itens, joia_id)
    ELSE quantidade

\* The cart entity after the update-or-append of AdicionarItemAoCarrinho.
ComItem(itens, joia_id, quantidade, total) ==
    IF TemItem(itens, joia_id)
    THEN [i \in 1..Len(itens) |->
            IF itens[i].joia_id = joia_id
            THEN [itens[i] EXCEPT !.quantidade = total]
            ELSE itens[i]]
    ELSE Append(itens, CarrinhoItem(joia_id, quantidade))

\* carrinho.itens.remove(item_para_remover); SemItem_Primeiro is the variant
\* that drops the first item whatever its product.
SemItem_Primeiro(itens, joia_id) == Tail(itens)

SemItem(itens, joia_id) ==
    SelectSeq(itens, LAMBDA item : item.joia_id # joia_id)

\* ItemCarrinho.clean, run by ItemCarrinho.save.
CleanItem(joia_id, quantidade) ==
    IF quantidade < 1 THEN "ValidationError"
    ELSE IF quantidade > estoque[joia_id] THEN "ValidationError"
    ELSE "ok"

\* CarrinhoRepositoryDjango.salvar inside its transaction: rows whose
\* quantity changed go through save() and clean(), new rows through
\* bulk_create and the CHECK of the PositiveIntegerField, rows absent from
\* the entity are deleted. The result is "ok" or the error that rolls back.
SalvarCarrinho(atual, itens) ==
    LET alterados == {i \in 1..Len(itens) :
                        /\ TemItem(atual, itens[i].joia_id)
                        /\ QtdDe(atual, itens[i].joia_id) # itens[i].quantidade}
        novos == {i \in 1..Len(itens) : ~TemItem(atual, itens[i].joia_id)}
    IN IF \E i \in alterados :
             CleanItem(itens[i].joia_id, itens[i].quantidade) # "ok"
       THEN "ValidationError"
       ELSE IF \E i \in novos : itens[i].quantidade < 0
       THEN "IntegrityError"
       ELSE "ok"

\* AdicionarItemAoCarrinho.execute
AdicionarItem(c, joia_id, quantidade) ==
    /\ IF joia_id \notin Joias
       THEN /\ cart_res' = Operacao("adicionar", joia_id, quantidade,
                                    "ItemNaoEncontradoError", FALSE)
            /\ UNCHANGED carrinho
       ELSE LET itens == carrinho[c]
                total == QuantidadeTotalSolicitada(itens, joia_id, quantidade)
                novo == ComItem(itens, joia_id, quantidade, total)
                gravacao == SalvarCarrinho(itens, novo)
            IN IF estoque[joia_id] < total
               THEN /\ cart_res' = Operacao("adicionar", joia_id, quantidade,
                                            "EstoqueInsuficienteError", FALSE)
                    /\ UNCHANGED carrinho
               ELSE /\ cart_res' = Operacao("adicionar", joia_id, quantidade,
                                            gravacao, TRUE)
                    /\ carrinho' = IF gravacao = "ok"
                                   THEN [carrinho EXCEPT ![c] = novo]
                                   ELSE carrinho
    /\ UNCHANGED <<estoque, preco, pedidos, pc, loc, resultado, gw_chamadas,
                   notif, baixado, manual_res, manual_req, webhook_resp, sessao>>
    /\ UNCHANGED varsRec

\* RemoverItemDoCarrinho.execute
RemoverItem(c, joia_id) ==
    /\ LET itens == carrinho[c]
       IN IF itens = <<>>
          THEN /\ cart_res' = Operacao("remover", joia_id, 0,
                                       "CarrinhoVazioError", FALSE)
               /\ UNCHANGED carrinho
          ELSE IF ~TemItem(itens, joia_id)
          THEN /\ cart_res' = Operacao("remover", joia_id, 0,
                                       "ItemNaoEncontradoError", FALSE)
               /\ UNCHANGED carrinho
          ELSE LET novo == SemItem(itens, joia_id)
                   gravacao == SalvarCarrinho(itens, novo)
               IN /\ cart_res' = Operacao("remover", joia_id, 0, gravacao, TRUE)
                  /\ carrinho' = IF gravacao = "ok"
                                 THEN [carrinho EXCEPT ![c] = novo]
                                 ELSE carrinho
    /\ UNCHANGED <<estoque, preco, pedidos, pc, loc, resultado, gw_chamadas,
                   notif, baixado, manual_res, manual_req, webhook_resp, sessao>>
    /\ UNCHANGED varsRec

\* ------------------------------------------------------------------
\* CartManager over the session
\* ------------------------------------------------------------------
Minimo(a, b) == IF a < b THEN a ELSE b

\* CartManager._load_carrinho_from_session: items whose product is out of
\* stock are left out, the others are capped at the stock.
CarregarSessao(itens) ==
    LET visiveis == SelectSeq(itens, LAMBDA item : estoque[item.joia_id] > 0)
    IN [i \in 1..Len(visiveis) |->
          CarrinhoItem(visiveis[i].joia_id,
                       Minimo(visiveis[i].quantidade,
                              estoque[visiveis[i].joia_id]))]

\* CartManager.add_item, on the cart the request loaded.
CartAddItem(joia_id, quantidade) ==
    /\ IF joia_id \notin Joias
       THEN /\ cart_res' = Operacao("add_item", joia_id, quantidade, "ok", FALSE)
            /\ UNCHANGED sessao
       ELSE LET itens == CarregarSessao(sessao)
                pedida == IF TemItem(itens, joia_id)
                          THEN QtdDe(itens, joia_id) + quantidade
                          ELSE quantidade
                nova_quantidade == IF pedida > estoque[joia_id]
                                   THEN estoque[joia_id] ELSE pedida
            IN /\ sessao' = ComItem(itens, joia_id, nova_quantidade,
                                    nova_quantidade)
               /\ cart_res' = Operacao("add_item", joia_id, quantidade, "ok", TRUE)
    /\ UNCHANGED <<estoque, preco, carrinho, pedidos, pc, loc, resultado,
                   gw_chamadas, notif, baixado, manual_res, manual_req, webhook_resp>>
    /\ UNCHANGED varsRec

\* CartManager.remove_item
CartRemoveItem(joia_id) ==
    /\ sessao' = SemItem(CarregarSessao(sessao), joia_id)
    /\ cart_res' = Operacao("remove_item", joia_id, 0, "ok", TRUE)
    /\ UNCHANGED <<estoque, preco, carrinho, pedidos, pc, loc, resultado,
                   gw_chamadas, notif, baixado, manual_res, manual_req, webhook_resp>>
    /\ UNCHANGED varsRec

\* CartManager.update_quantity
CartUpdateQuantity(joia_id, quantidade) ==
    /\ IF joia_id \notin Joias
       THEN /\ cart_res' = Operacao("update_quantity", joia_id, quantidade,
                                    "ok", FALSE)
            /\ UNCHANGED sessao
       ELSE LET itens == CarregarSessao(sessao)
                quantidade_final == Minimo(quantidade, estoque[joia_id])
            IN IF quantidade <= 0
               THEN /\ sessao' = SemItem(itens, joia_id)
                    /\ cart_res' = Operacao("update_quantity", joia_id,
                                            quantidade, "ok", TRUE)
               ELSE IF TemItem(itens, joia_id)
               THEN /\ sessao' = ComItem(itens, joia_id, quantidade_final,
                                         quantidade_final)
                    /\ cart_res' = Operacao("update_quantity", joia_id,
                                            quantidade, "ok", TRUE)
               ELSE /\ cart_res' = Operacao("update_quantity", joia_id,
                                            quantidade, "ok", FALSE)
                    /\ UNCHANGED sessao
    /\ UNCHANGED <<estoque, preco, carrinho, pedidos, pc, loc, resultado,
                   gw_chamadas, notif, baixado, manual_res, manual_req, webhook_resp>>
    /\ UNCHANGED varsRec

\* ------------------------------------------------------------------
\* Specifications
\* ------------------------------------------------------------------
EmCurso(c) == pc[c] \notin {"inicio", "fim"}
REmCurso(r) == rpc[r] \notin {"inicio", "fim"}

\* Steps of a checkout that runs while no other transaction is open.
CheckoutSozinho(c) ==
    \/ BuscarCarrinho(c)
    \/ SnapshotItem(c)
    \/ Pagamento(c)
    \/ SalvarInicio(c)
    \/ BaixaItem(c)
    \/ AtualizarEstoqueLer(c)
    \/ AtualizarEstoqueGravar(c)
    \/ LimparCarrinho(c)
    \/ EnviarEmail(c)
    \/ EnviarWhatsapp(c)

Checkout(c) ==
    \/ CheckoutSozinho(c)
    \/ Deadlock(c)

Reconciliar(r) ==
    \/ Verificar(r)
    \/ BuscarPedido(r)
    \/ SalvarStatus(r)
    \/ AprovacaoWhatsapp(r)
    \/ AprovacaoEmail(r)

\* Concurrent checkouts of all customers.
Next == \E c \in Clientes : Checkout(c)

Spec == Init /\ [][Next]_vars

\* Checkouts that do not overlap: a call takes a step only while no other
\* call is in progress.
NextSeq ==
    \E c \in Clientes :
        /\ \A d \in Clientes \ {c} : ~EmCurso(d)
        /\ CheckoutSozinho(c)

SpecSeq == Init /\ [][NextSeq]_vars

\* One customer checks out while webhook calls for that customer's
\* transaction arrive.
InitRec ==
    /\ Init
    /\ estoque = [j \in Joias |-> MaxEstoque]
    /\ carrinho["u2"] = <<>>

NextRec ==
    \/ CheckoutSozinho("u1")
    \/ \E r \in Recs : Reconciliar(r)

SpecRec == InitRec /\ [][NextRec]_vars

\* The same, with calls that do not overlap.
NextRecSeq ==
    \/ /\ \A r \in Recs : ~REmCurso(r)
       /\ CheckoutSozinho("u1")
    \/ \E r \in Recs :
        /\ ~EmCurso("u1")
        /\ \A q \in Recs \ {r} : ~REmCurso(q)
        /\ Reconciliar(r)

SpecRecSeq == InitRec /\ [][NextRecSeq]_vars

\* No call is in progress.
Quieto == ~EmCurso("u1") /\ \A r \in Recs : ~REmCurso(r)

\* One customer checks out a two-line cart, then one reconciliation and
\* manual status updates follow one another without overlapping, while the
\* catalog prices change at any time.
InitStatus ==
    /\ InitRec
    /\ \E q \in {1, MaxQtd} :
          carrinho["u1"] = <<CarrinhoItem("j1", q), CarrinhoItem("j2", 1)>>

NextStatus ==
    \/ /\ ~REmCurso("r1")
       /\ CheckoutSozinho("u1")
    \/ /\ ~EmCurso("u1")
       /\ Reconciliar("r1")
    \/ /\ Quieto
       /\ \E pedido_id \in IdsPedido, novo_status \in StatusPedidos :
            AtualizarStatusManual(pedido_id, novo_status)
    \/ \E j \in Joias, p \in Precos : AlterarPreco(j, p)

SpecStatus == InitStatus /\ [][NextStatus]_vars

\* One customer checks out, then webhook notifications and reconciliations
\* follow one another without overlapping.
NextWebhook ==
    \/ /\ \A r \in Recs : ~REmCurso(r)
       /\ CheckoutSozinho("u1")
    \/ \E r \in Recs :
        /\ ~EmCurso("u1")
        /\ \A q \in Recs \ {r} : ~REmCurso(q)
        /\ Reconciliar(r)
    \/ /\ Quieto
       /\ \E topic \in Topicos, resource_id \in Recursos, pk \in IdsPedido \cup {0} :
            Webhook(topic, resource_id, pk)

SpecWebhook == InitStatus /\ [][NextWebhook]_vars

\* One customer checks out a one-line cart; manual status updates run
\* before and after the checkout.
InitManual ==
    /\ InitRec
    /\ carrinho["u1"] = <<CarrinhoItem("j1", 1)>>

NextManual ==
    \/ CheckoutSozinho("u1")
    \/ /\ ~EmCurso("u1")
       /\ \E pedido_id \in IdsPedido, novo_status \in StatusPedidos :
            AtualizarStatusManual(pedido_id, novo_status)

SpecManual == InitManual /\ [][NextManual]_vars

\* Both customers check out a one-line cart, one after the other; one
\* reconciliation and manual status updates run between the checkouts.
InitOrdens ==
    /\ Init
    /\ estoque = [j \in Joias |-> MaxEstoque]
    /\ carrinho = [c \in Clientes |->
                     IF c = "u1" THEN <<CarrinhoItem("j1", 1)>>
                     ELSE <<CarrinhoItem("j2", MaxQtd)>>]

\* The statuses the manual updates of this run ask for.
StatusOrdens == {"ENVIADO", "PAGO"}

NextOrdens ==
    \/ \E c \in Clientes :
         /\ \A d \in Clientes \ {c} : ~EmCurso(d)
         /\ ~REmCurso("r1")
         /\ CheckoutSozinho(c)
    \/ /\ \A c \in Clientes : ~EmCurso(c)
       /\ Reconciliar("r1")
    \/ /\ \A c \in Clientes : ~EmCurso(c)
       /\ ~REmCurso("r1")
       /\ \E pedido_id \in IdsPedido, novo_status \in StatusOrdens :
            AtualizarStatusManual(pedido_id, novo_status)

SpecOrdens == InitOrdens /\ [][NextOrdens]_vars

\* Quantities a cart request may carry, the non-positive ones included.
QtdsPedidas == (0 - 1)..MaxQtd

\* One customer edits the stored cart through the use cases.
InitCarrinho ==
    /\ Init
    /\ carrinho["u2"] = <<>>

NextCarrinho ==
    \/ \E joia_id \in Joias \cup {JoiaInexistente}, quantidade \in QtdsPedidas :
         AdicionarItem("u1", joia_id, quantidade)
    \/ \E joia_id \in Joias \cup {JoiaInexistente} : RemoverItem("u1", joia_id)

SpecCarrinho == InitCarrinho /\ [][NextCarrinho]_vars

\* A visitor edits a session cart through CartManager; the quantities kept
\* in the session stay within MaxQtd below zero.
InitSessao ==
    /\ Init
    /\ \A c \in Clientes : carrinho[c] = <<>>

NextSessao ==
    /\ \/ \E joia_id \in Joias \cup {JoiaInexistente}, quantidade \in QtdsPedidas :
            CartAddItem(joia_id, quantidade)
       \/ \E joia_id \in Joias \cup {JoiaInexistente}, quantidade \in QtdsPedidas :
            CartUpdateQuantity(joia_id, quantidade)
       \/ \E joia_id \in Joias : CartRemoveItem(joia_id)
    /\ \A i \in 1..Len(sessao') : sessao'[i].quantidade >= 0 - MaxQtd

SpecSessao == InitSessao /\ [][NextSessao]_vars

\* ------------------------------------------------------------------
\* Vocabulary of the properties
\* ------------------------------------------------------------------
PedidosDe(c) == {i \in 1..Len(pedidos) : pedidos[i].usuario_id = c}

GatewayChamado(c) == Len(gw_chamadas[c]) > 0

UltimaChamada(c) == gw_chamadas[c][Len(gw_chamadas[c])]

GatewayOk(c) == GatewayChamado(c) /\ UltimaChamada(c).tipo = "ok"

\* The three failures of the payment step: an exception, a timeout
\* (both are returned as a raised error), an explicit rejection.
GatewayFalhou(c) ==
    /\ GatewayChamado(c)
    /\ \/ UltimaChamada(c).tipo # "ok"
       \/ UltimaChamada(c).status = "REJEITADO"

SemBaixa(c) == \A j \in Joias : baixado[c][j] = 0

SemNotificacao(c) == notif[c].email = 0 /\ notif[c].whatsapp = 0

\* Nothing of the checkout of c after the validation has happened.
SemEfeitos(c) ==
    /\ PedidosDe(c) = {}
    /\ SemBaixa(c)
    /\ SemNotificacao(c)

\* C1: stock never goes below zero, and every decrement of a checkout takes
\* effect only on a stock that, at the moment of the write, is at least the
\* quantity subtracted, leaving exactly that stock minus the quantity.
C1_BaixaCondicional ==
    [][/\ \A j \in Joias : estoque'[j] >= 0
       /\ \A c \in Clientes : \A j \in Joias :
            baixado'[c][j] # baixado[c][j] =>
                LET q == baixado'[c][j] - baixado[c][j]
                IN /\ estoque[j] >= q
                   /\ estoque'[j] = estoque[j] - q]_vars

\* C2: a checkout whose payment succeeded ends with exactly one order of the
\* customer, one line per product of the cart, a total equal to the sum of
\* price times quantity, and each product's stock equal to the stock read
\* at validation minus the quantity.
C2_PedidoUnicoEBaixaExata ==
    [][\A c \in Clientes :
          (pc[c] # "fim" /\ pc'[c] = "fim" /\ GatewayOk(c)) =>
              LET itens == loc[c].itens_carrinho
              IN /\ Cardinality(PedidosDe(c)') = 1
                 /\ \A i \in PedidosDe(c)' :
                      /\ Len(pedidos'[i].itens) = Len(itens)
                      /\ JoiasDe(pedidos'[i].itens) = JoiasDe(itens)
                      /\ pedidos'[i].total_pedido = SomaSubtotais(
                            [k \in 1..Len(itens) |->
                                [subtotal |-> preco[itens[k].joia_id]
                                              * itens[k].quantidade]])
                 /\ \A j \in JoiasDe(itens) :
                      estoque'[j] = loc[c].joias_compradas[j] - QtdDe(itens, j)]_vars

\* C3: a snapshot turn that finds the stock of its product below the
\* requested quantity ends the checkout with EstoqueInsuficienteError naming
\* that product, and a checkout that ended so has called no gateway, saved
\* no order, decremented nothing, notified nobody and left the cart as it was.
C3_EstoqueInsuficienteSemEfeitos ==
    [][\A c \in Clientes :
          /\ (pc[c] = "snapshot" /\ loc'[c] # loc[c]) =>
                LET item == loc[c].itens_carrinho[loc[c].idx]
                IN estoque[item.joia_id] < item.quantidade =>
                     /\ pc'[c] = "fim"
                     /\ resultado'[c] = [tipo |-> "EstoqueInsuficienteError",
                                         joia |-> item.joia_id]
                     /\ UNCHANGED <<estoque, carrinho, pedidos, gw_chamadas,
                                    notif, baixado>>
          /\ resultado'[c].tipo = "EstoqueInsuficienteError" =>
                /\ SemEfeitos(c)'
                /\ gw_chamadas'[c] = <<>>
                /\ carrinho'[c] # <<>>
                /\ estoque'[resultado'[c].joia]
                      < QtdDe(carrinho'[c], resultado'[c].joia)]_vars

\* C3 witness: the second line of a two-line cart was the short one.
C3_Witness ==
    \E c \in Clientes :
        /\ resultado[c].tipo = "EstoqueInsuficienteError"
        /\ Len(carrinho[c]) = 2
        /\ carrinho[c][2].joia_id = resultado[c].joia
        /\ estoque[carrinho[c][1].joia_id] >= carrinho[c][1].quantidade
        /\ SemEfeitos(c)

\* C4: when the gateway step fails (exception, timeout or explicit
\* rejection) no order is saved, no stock is decremented, the cart is not
\* emptied and nobody is notified.
C4_FalhaDePagamentoSemEfeitos ==
    \A c \in Clientes :
        GatewayFalhou(c) => SemEfeitos(c) /\ carrinho[c] # <<>>

\* C5: a checkout on an empty cart ends with CarrinhoVazioError, and a
\* checkout that ended so has touched no stock, saved no order, called no
\* gateway and notified nobody.
C5_CarrinhoVazioSemEfeitos ==
    [][\A c \in Clientes :
          /\ (pc[c] = "inicio" /\ pc'[c] # "inicio" /\ carrinho[c] = <<>>) =>
                /\ pc'[c] = "fim"
                /\ resultado'[c] = Resultado("CarrinhoVazioError")
                /\ UNCHANGED <<estoque, carrinho, pedidos, gw_chamadas,
                               notif, baixado>>
          /\ resultado'[c].tipo = "CarrinhoVazioError" =>
                /\ SemEfeitos(c)'
                /\ gw_chamadas'[c] = <<>>
                /\ carrinho'[c] = <<>>]_vars

\* C5 witness: a customer with an empty cart was refused while the other
\* customer's checkout went through.
C5_Witness ==
    \E c \in Clientes :
        /\ resultado[c].tipo = "CarrinhoVazioError"
        /\ carrinho[c] = <<>>
        /\ SemEfeitos(c)
        /\ \E d \in Clientes \ {c} : PedidosDe(d) # {}

\* C6: each product's stock is decremented by the checkout exactly once by
\* the ordered quantity when the order is persisted, and not at all when no
\* order is persisted.
C6_BaixaUmaVezPorPedido ==
    \A c \in Clientes : \A j \in Joias :
        baixado[c][j] =
            IF PedidosDe(c) = {} THEN 0
            ELSE LET i == CHOOSE k \in PedidosDe(c) : TRUE
                 IN IF j \in JoiasDe(pedidos[i].itens)
                    THEN QtdDe(pedidos[i].itens, j) ELSE 0

\* C7: a checkout never ends with the payment accepted by the gateway and
\* no order persisted.
C7_PagoImplicaPedido ==
    \A c \in Clientes :
        (pc[c] = "fim" /\ GatewayOk(c)) => PedidosDe(c) # {}

\* ------------------------------------------------------------------
\* Reconciliation properties
\* ------------------------------------------------------------------
SemNotificacaoAprov(r) == notif_aprov[r].whatsapp = 0 /\ notif_aprov[r].email = 0

\* r completes a call that directly follows the completed call ultima_rec on
\* the same order, and the provider reported the same status to both.
SegundaChamadaIgual(r) ==
    /\ ExistePedidoDaTransacao(RefReconciliada)
    /\ rpc[r] # "fim"
    /\ rpc'[r] = "fim"
    /\ ultima_rec \in Recs
    /\ verificado'[r] # "falha"
    /\ verificado[ultima_rec] = verificado'[r]

\* C8 as stated: two calls in sequence with the same provider status make
\* exactly one status write between them, and at most one approval
\* notification per channel.
C8_ExatamenteUmaEscrita ==
    [][\A r \in Recs :
          SegundaChamadaIgual(r) =>
              /\ escritas[ultima_rec] + escritas'[r] = 1
              /\ notif_aprov[ultima_rec].whatsapp + notif_aprov'[r].whatsapp <= 1
              /\ notif_aprov[ultima_rec].email + notif_aprov'[r].email <= 1]_vars

\* C8 amended: of two calls in sequence with the same provider status the
\* second writes nothing and notifies nobody, and the first writes at most
\* once and notifies at most once per channel.
C8_SegundaChamadaNaoEscreve ==
    [][\A r \in Recs :
          SegundaChamadaIgual(r) =>
              /\ escritas'[r] = 0
              /\ SemNotificacaoAprov(r)'
              /\ escritas[ultima_rec] <= 1
              /\ notif_aprov[ultima_rec].whatsapp <= 1
              /\ notif_aprov[ultima_rec].email <= 1]_vars

\* C8 witness: r1 wrote PAGO and notified, then r2 got the same APROVADO
\* and did nothing.
C8_Witness ==
    /\ ultima_rec = "r2"
    /\ rpc["r1"] = "fim"
    /\ rpc["r2"] = "fim"
    /\ verificado["r1"] = "APROVADO"
    /\ verificado["r2"] = "APROVADO"
    /\ escritas["r1"] = 1
    /\ notif_aprov["r1"].whatsapp = 1
    /\ escritas["r2"] = 0
    /\ SemNotificacaoAprov("r2")

\* C9: of the reconciliations that were told APROVADO, at most one writes
\* the order and at most one sends approval notifications.
C9_UmaSoEscrevePago ==
    \A r \in Recs : \A s \in Recs \ {r} :
        (verificado[r] = "APROVADO" /\ verificado[s] = "APROVADO") =>
            /\ ~(escritas[r] > 0 /\ escritas[s] > 0)
            /\ ~(~SemNotificacaoAprov(r) /\ ~SemNotificacaoAprov(s))

\* The status graph of the order: the edges a status may legally take.
TransicaoLegal(de, para) ==
    \/ de = "PENDENTE" /\ para \in {"PAGO", "CANCELADO"}
    \/ de = "PAGO" /\ para \in {"PROCESSANDO", "CANCELADO"}
    \/ de = "PROCESSANDO" /\ para \in {"ENVIADO", "CANCELADO"}
    \/ de = "ENVIADO" /\ para \in {"ENTREGUE", "CANCELADO"}

EstadosDoGrafo ==
    {"PENDENTE", "PAGO", "PROCESSANDO", "ENVIADO", "ENTREGUE", "CANCELADO"}

\* C10: every status write of a reconciliation on an order whose stored
\* status is a state of the graph follows a legal edge of the graph.
C10_SoTransicoesLegais ==
    [][\A r \in Recs :
          escritas'[r] > escritas[r] =>
              \A i \in 1..Len(pedidos) :
                  (pedidos[i].status \in EstadosDoGrafo
                   /\ pedidos'[i].status # pedidos[i].status) =>
                      TransicaoLegal(pedidos[i].status, pedidos'[i].status)]_vars

\* ------------------------------------------------------------------
\* Status properties
\* ------------------------------------------------------------------
EstadosTerminais == {"CANCELADO", "ENTREGUE"}

\* C11: once the stored status of an order is CANCELADO or ENTREGUE, no
\* reconciliation and no manual status update changes it.
C11_TerminaisNaoMudam ==
    [][\A i \in 1..Len(pedidos) :
          pedidos[i].status \in EstadosTerminais =>
              pedidos'[i].status = pedidos[i].status]_vars

\* C12: every order a checkout persists is stored with a status among
\* PAGO, PENDENTE and CANCELADO.
C12_StatusInicialMapeado ==
    \A i \in 1..Len(pedidos) :
        pedidos[i].status \in {"PAGO", "PENDENTE", "CANCELADO"}

\* C13: the status a checkout stores for the provider status it was given
\* is the status the reconciliation table gives for that provider status.
C13_MesmoMapeamento ==
    \A c \in Clientes : \A i \in PedidosDe(c) :
        pedidos[i].status =
            StatusMapPedido(UltimaChamada(c).status, pedidos[i].status)

\* C14: the total of every stored order is the sum of its line subtotals,
\* every subtotal is the snapshot unit price times the quantity, and no step
\* (price change, reconciliation, manual status update) changes the lines or
\* the total of an order already stored.
C14_TotalEItensImutaveis ==
    [][\A i \in 1..Len(pedidos') :
          /\ pedidos'[i].total_pedido = SomaSubtotais(pedidos'[i].itens)
          /\ \A k \in 1..Len(pedidos'[i].itens) :
                pedidos'[i].itens[k].subtotal =
                    pedidos'[i].itens[k].preco_unitario
                    * pedidos'[i].itens[k].quantidade
          /\ i <= Len(pedidos) =>
                /\ pedidos'[i].itens = pedidos[i].itens
                /\ pedidos'[i].total_pedido = pedidos[i].total_pedido]_vars

\* C14 witness: an order whose product now costs something else than its
\* snapshot, after a reconciliation wrote its status and a manual update
\* changed it again.
C14_Witness ==
    /\ Len(pedidos) = 1
    /\ \E k \in 1..Len(pedidos[1].itens) :
          preco[pedidos[1].itens[k].joia_id] # pedidos[1].itens[k].preco_unitario
    /\ escritas["r1"] = 1
    /\ manual_res = "ok"
    /\ pedidos[1].total_pedido = SomaSubtotais(pedidos[1].itens)

\* C15: a checkout that returned its order has attempted the confirmation
\* on both channels, whichever of them failed.
C15_CanaisIsolados ==
    \A c \in Clientes :
        resultado[c].tipo = "ok" =>
            /\ PedidosDe(c) # {}
            /\ carrinho[c] = <<>>
            /\ notif[c].email = 1
            /\ notif[c].whatsapp = 1

\* ------------------------------------------------------------------
\* Cart properties
\* ------------------------------------------------------------------
\* The step is a cart operation op of customer u1.
PassoCarrinho(op) ==
    /\ cart_res'.op = op
    /\ cart_res' # cart_res \/ carrinho' # carrinho

LinhasDe(itens, j) == {i \in 1..Len(itens) : itens[i].joia_id = j}

\* The items of products other than j are the same in both carts.
OutrosIguais(antes, depois, j) ==
    \A k \in Joias \ {j} :
        /\ Cardinality(LinhasDe(depois, k)) = Cardinality(LinhasDe(antes, k))
        /\ QtdDe(depois, k) = QtdDe(antes, k)

C17_QuantidadePositiva ==
    /\ \A i \in 1..Len(sessao) : sessao[i].quantidade >= 1
    /\ \A c \in Clientes : \A i \in 1..Len(carrinho[c]) :
          carrinho[c][i].quantidade >= 1

\* The cart after the call holds no item of j and the other items as before.
RemovidoSo(antes, depois, j) ==
    /\ Len(depois) = Len(antes) - 1
    /\ LinhasDe(depois, j) = {}
    /\ OutrosIguais(antes, depois, j)

\* C18 as stated: RemoverItemDoCarrinho removes the item of the product and
\* nothing else, and whenever the cart holds no item of the product, the
\* empty cart included, it raises ItemNaoEncontradoError with the cart
\* unchanged and not saved.
C18_RemoverOuItemNaoEncontrado ==
    [][PassoCarrinho("remover") =>
          LET j == cart_res'.joia
              antes == carrinho["u1"]
              depois == carrinho'["u1"]
          IN IF LinhasDe(antes, j) # {}
             THEN /\ cart_res'.tipo = "ok"
                  /\ cart_res'.salvou
                  /\ RemovidoSo(antes, depois, j)
             ELSE /\ cart_res'.tipo = "ItemNaoEncontradoError"
                  /\ ~cart_res'.salvou
                  /\ depois = antes]_vars

\* C18 amended: the same, except that on an empty cart the call raises
\* CarrinhoVazioError; ItemNaoEncontradoError is raised when a non-empty cart
\* holds no item of the product.
C18_RemoverOuErro ==
    [][PassoCarrinho("remover") =>
          LET j == cart_res'.joia
              antes == carrinho["u1"]
              depois == carrinho'["u1"]
          IN IF LinhasDe(antes, j) # {}
             THEN /\ cart_res'.tipo = "ok"
                  /\ cart_res'.salvou
                  /\ RemovidoSo(antes, depois, j)
             ELSE /\ cart_res'.tipo = IF antes = <<>>
                                      THEN "CarrinhoVazioError"
                                      ELSE "ItemNaoEncontradoError"
                  /\ ~cart_res'.salvou
                  /\ depois = antes]_vars

\* C18 witness: one of two items was removed and the other one is left.
C18_Witness ==
    /\ cart_res.op = "remover"
    /\ cart_res.tipo = "ok"
    /\ cart_res.salvou
    /\ Len(carrinho["u1"]) = 1
    /\ carrinho["u1"][1].joia_id # cart_res.joia

\* C19: a webhook notification about a payment that carries its reference
\* is answered with HTTP 200 and makes a reconciliation call verify that
\* reference with the gateway.
C19_WebhookReconcilia ==
    [][(/\ webhook_resp' # webhook_resp
        /\ webhook_resp'.topico = "payment"
        /\ webhook_resp'.referencia # Nenhum) =>
          /\ webhook_resp'.resposta = "HTTP_200_OK"
          /\ \E r \in Recs : verificado'[r] # verificado[r]]_vars

\* The status the reconciliation call r found stored, seen from the step
\* that completes the call.
StatusEncontrado(r) ==
    IF rpc[r] = "buscar"
    THEN BuscarPorTransacaoId(RefReconciliada).status
    ELSE rloc[r].status_antigo

\* C20: a reconciliation that found the order PENDENTE ends with PAGO and
\* one write when the provider said APROVADO, with CANCELADO, one write and
\* no approval notification when it said REJEITADO or ESTORNADO, and with
\* PENDENTE, no write and no notification when it said PENDENTE.
C20_ReconciliaPendente ==
    [][\A r \in Recs :
          (/\ rpc[r] \notin {"inicio", "fim"}
           /\ rpc'[r] = "fim"
           /\ ExistePedidoDaTransacao(RefReconciliada)
           /\ StatusEncontrado(r) = "PENDENTE") =>
              LET depois == BuscarPorTransacaoId(RefReconciliada)'.status
              IN CASE verificado'[r] = "APROVADO" ->
                        depois = "PAGO" /\ escritas'[r] = 1
                   [] verificado'[r] \in {"REJEITADO", "ESTORNADO"} ->
                        /\ depois = "CANCELADO"
                        /\ escritas'[r] = 1
                        /\ SemNotificacaoAprov(r)'
                   [] verificado'[r] = "PENDENTE" ->
                        /\ depois = "PENDENTE"
                        /\ escritas'[r] = 0
                        /\ SemNotificacaoAprov(r)'
                   [] OTHER -> TRUE]_vars

\* C20 witness: the order was stored PENDENTE, the only reconciliation that
\* ran was told ESTORNADO and left it CANCELADO with one write.
C20_Witness ==
    /\ GatewayOk("u1")
    /\ UltimaChamada("u1").status = "PENDENTE"
    /\ rpc["r1"] = "fim"
    /\ rpc["r2"] = "inicio"
    /\ verificado["r1"] = "ESTORNADO"
    /\ escritas["r1"] = 1
    /\ SemNotificacaoAprov("r1")
    /\ ExistePedidoDaTransacao(RefReconciliada)
    /\ BuscarPorTransacaoId(RefReconciliada).status = "CANCELADO"

\* ------------------------------------------------------------------
\* Reconciliation outcomes
\* ------------------------------------------------------------------
\* The step completes the reconciliation call r.
Completa(r) == rpc[r] # "fim" /\ rpc'[r] = "fim"

SemAprovacao == [whatsapp |-> 0, email |-> 0]

\* The rows stored for the reconciled transaction.
LinhasDaTransacao(linhas) ==
    {i \in 1..Len(linhas) : linhas[i].transacao_id = RefReconciliada}

C22_SemGatewayOuSemPedido ==
    [][\A r \in Recs :
          /\ (verificado'[r] = "falha" /\ verificado[r] # "falha") =>
                /\ rpc'[r] = "fim"
                /\ pedidos' = pedidos
                /\ escritas'[r] = 0
                /\ notif_aprov'[r] = SemAprovacao
          /\ (/\ rpc[r] = "buscar"
              /\ rpc'[r] # "buscar"
              /\ LinhasDaTransacao(pedidos) = {}) =>
                /\ rpc'[r] = "fim"
                /\ pedidos' = pedidos
                /\ escritas'[r] = 0
                /\ notif_aprov'[r] = SemAprovacao
          /\ verificado[r] = "falha" =>
                /\ escritas'[r] = 0
                /\ notif_aprov'[r] = SemAprovacao]_vars

\* C22 witness: one call completed after the gateway failed and another one
\* after it found no order for the transaction, the order store still empty.
C22_Witness ==
    /\ rpc["r1"] = "fim"
    /\ verificado["r1"] = "falha"
    /\ rpc["r2"] = "fim"
    /\ verificado["r2"] = "APROVADO"
    /\ pedidos = <<>>
    /\ \A r \in Recs : escritas[r] = 0 /\ notif_aprov[r] = SemAprovacao

\* The provider statuses the reconciliation table has a row for.
ChavesDaTabela == {"APROVADO", "PENDENTE", "REJEITADO", "ESTORNADO"}

\* C30: a reconciliation call that was given a provider status the table has
\* no row for (the gateway's CANCELADO) and found the order completes with no
\* write, no approval notification and the stored orders unchanged.
C30_StatusForaDaTabela ==
    [][\A r \in Recs :
          (/\ rpc[r] = "buscar"
           /\ rpc'[r] # "buscar"
           /\ LinhasDaTransacao(pedidos) # {}
           /\ rloc[r].transacao_status \notin ChavesDaTabela) =>
              /\ rpc'[r] = "fim"
              /\ pedidos' = pedidos
              /\ escritas'[r] = 0
              /\ notif_aprov'[r] = SemAprovacao]_vars

\* C30 witness: the gateway answered CANCELADO for a stored order that is
\* not CANCELADO; the call completed without a write.
C30_Witness ==
    /\ rpc["r1"] = "fim"
    /\ rpc["r2"] = "inicio"
    /\ verificado["r1"] = "CANCELADO"
    /\ escritas["r1"] = 0
    /\ notif_aprov["r1"] = SemAprovacao
    /\ LinhasDaTransacao(pedidos) # {}
    /\ \A i \in LinhasDaTransacao(pedidos) : pedidos[i].status = "PENDENTE"

\* ------------------------------------------------------------------
\* Checkout outcomes
\* ------------------------------------------------------------------
\* The step completes the checkout of c.
Encerra(c) == pc[c] # "fim" /\ pc'[c] = "fim"

\* C23: the cart of a customer changes only by being emptied, after the
\* order of that checkout is stored and the stock of every cart line has
\* been taken; a checkout that ends with anything but its order leaves the
\* cart holding the lines it read when it started.
C23_CarrinhoSoAposPersistir ==
    [][\A c \in Clientes :
          /\ carrinho'[c] # carrinho[c] =>
                /\ carrinho'[c] = <<>>
                /\ PedidosDe(c) # {}
                /\ \A j \in JoiasDe(carrinho[c]) :
                      baixado[c][j] >= QtdDe(carrinho[c], j)
          /\ (Encerra(c) /\ resultado'[c].tipo # "ok") =>
                /\ carrinho'[c] = carrinho[c]
                /\ carrinho'[c] = loc[c].itens_carrinho]_vars

\* C23 witness: a checkout failed in the persistence step after its order
\* was stored, and the two lines of the cart are still there.
C23_Witness ==
    \E c \in Clientes :
        /\ resultado[c].tipo = "Exception"
        /\ PedidosDe(c) # {}
        /\ Len(carrinho[c]) = 2

\* C24: a checkout that returns its order has attempted the confirmation
\* exactly once on each channel and a checkout that fails on none, and an
\* attempt is made only once the order is stored and the cart emptied.
C24_UmaConfirmacaoPorCanal ==
    [][\A c \in Clientes :
          /\ Encerra(c) =>
                IF resultado'[c].tipo = "ok"
                THEN notif'[c] = [email |-> 1, whatsapp |-> 1]
                ELSE notif'[c] = [email |-> 0, whatsapp |-> 0]
          /\ notif'[c] # notif[c] =>
                /\ PedidosDe(c) # {}
                /\ carrinho[c] = <<>>]_vars

\* C25: whenever processar_pagamento raised, whatever it raised, the
\* checkout ends with PagamentoFalhouError.
C25_FalhaDoGatewayNormalizada ==
    \A c \in Clientes :
        (GatewayChamado(c) /\ UltimaChamada(c).tipo # "ok") =>
            resultado[c].tipo = "PagamentoFalhouError"

\* ------------------------------------------------------------------
\* Status updates of stored orders
\* ------------------------------------------------------------------
\* The step is a call of AtualizarStatusManual.execute.
PassoManual ==
    \/ manual_req' # manual_req
    \/ manual_res' # manual_res
    \/ pedidos' # pedidos /\ UNCHANGED <<pc, rpc, escritas>>

\* The requested status of that call, in upper case.
StatusPedido ==
    IF manual_req'.novo_status = "pago" THEN "PAGO" ELSE manual_req'.novo_status

\* The stored rows that call names.
LinhasPedidas == {i \in 1..Len(pedidos) : pedidos[i].id = manual_req'.pedido_id}

\* C26: a step that creates no order changes nothing but the status of the
\* order it is about (the order of the reconciled transaction, the order a
\* manual update names): customer, lines, total, address, phone, payment
\* method and transaction reference stay, and so does every other order;
\* a step that creates an order leaves the stored ones as they were.
C26_SoOStatusMuda ==
    [][/\ Len(pedidos') >= Len(pedidos)
       /\ \A i \in 1..Len(pedidos) :
            /\ [pedidos'[i] EXCEPT !.status = pedidos[i].status] = pedidos[i]
            /\ pedidos'[i].status # pedidos[i].status =>
                  \/ /\ pedidos[i].transacao_id = RefReconciliada
                     /\ \E r \in Recs : escritas'[r] = escritas[r] + 1
                  \/ /\ PassoManual
                     /\ i \in LinhasPedidas]_vars

\* C26 witness: two orders are stored; the reconciliation wrote PAGO on the
\* order of its transaction and a manual update set the other one to
\* ENVIADO, which still carries its customer's phone and transaction.
C26_Witness ==
    /\ Len(pedidos) = 2
    /\ escritas["r1"] = 1
    /\ manual_res = "ok"
    /\ \E i, k \in 1..2 :
          /\ pedidos[i].transacao_id = RefReconciliada
          /\ pedidos[i].status = "PAGO"
          /\ pedidos[k].usuario_id = "u2"
          /\ pedidos[k].id = manual_req.pedido_id
          /\ pedidos[k].status = "ENVIADO"
          /\ pedidos[k].telefone_whatsapp = TelefoneDe("u2")
          /\ pedidos[k].transacao_id = "u2"

\* The edges a manual update may follow.
ArestaManual(de, para) ==
    \/ <<de, para>> \in {<<"PAGO", "PROCESSANDO">>, <<"PROCESSANDO", "ENVIADO">>,
                         <<"ENVIADO", "ENTREGUE">>}
    \/ para = "CANCELADO" /\ de \notin EstadosTerminais

\* C27: a manual update that asks for a status other than the stored one
\* and other than the next step of PAGO, PROCESSANDO, ENVIADO, ENTREGUE or
\* CANCELADO from a non-terminal status raises and leaves the orders as
\* they were.
C27_ManualSoArestasLegais ==
    [][PassoManual =>
          \A i \in LinhasPedidas :
              (/\ StatusPedido # pedidos[i].status
               /\ ~ArestaManual(pedidos[i].status, StatusPedido)) =>
                  /\ pedidos' = pedidos
                  /\ manual_res' \notin {"ok", "inalterado"}]_vars

\* C28: a manual update that asks for the status the order already has
\* returns without saving, notifies nobody and leaves every order as it was;
\* a manual update that saves leaves the requested status stored, so that
\* the same update applied again saves nothing.
C28_MesmoStatusNaoEscreve ==
    [][PassoManual =>
          \A i \in LinhasPedidas :
              /\ StatusPedido = pedidos[i].status =>
                    /\ manual_res' = "inalterado"
                    /\ pedidos' = pedidos
                    /\ UNCHANGED <<notif, notif_aprov>>
              /\ manual_res' = "ok" =>
                    /\ pedidos[i].status # StatusPedido
                    /\ pedidos'[i].status = StatusPedido
              /\ manual_res' = "inalterado" => StatusPedido = pedidos[i].status]_vars

\* C28 witness: the order is stored ENVIADO, which only a manual update
\* writes, and the last manual update asked for ENVIADO again and saved
\* nothing.
C28_Witness ==
    /\ manual_res = "inalterado"
    /\ manual_req.novo_status = "ENVIADO"
    /\ \E i \in 1..Len(pedidos) :
          /\ pedidos[i].id = manual_req.pedido_id
          /\ pedidos[i].status = "ENVIADO"

\* The valid order statuses.
StatusDePedido ==
    {"PAGO", "PENDENTE", "PROCESSANDO", "ENVIADO", "ENTREGUE", "CANCELADO"}

\* C29: a manual update raises StatusInvalidoError when the requested
\* status, in upper case, is not a valid order status, and
\* PedidoNaoEncontradoError when the status is valid and no order has the
\* given id; a call that raised either left every order as it was, and
\* neither is raised otherwise.
C29_ErrosDoStatusManual ==
    [][PassoManual =>
          /\ StatusPedido \notin StatusDePedido =>
                manual_res' = "StatusInvalidoError"
          /\ (StatusPedido \in StatusDePedido /\ LinhasPedidas = {}) =>
                manual_res' = "PedidoNaoEncontradoError"
          /\ (StatusPedido \in StatusDePedido /\ LinhasPedidas # {}) =>
                manual_res' \in {"ok", "inalterado"}
          /\ manual_res' \in {"StatusInvalidoError", "PedidoNaoEncontradoError"} =>
                pedidos' = pedidos]_vars

\* C29 witness: one order is stored and the last manual update named an id
\* that no order has.
C29_Witness ==
    /\ Len(pedidos) = 1
    /\ manual_req.pedido_id = 2
    /\ manual_req.novo_status \in StatusDePedido
    /\ manual_res = "PedidoNaoEncontradoError"

====
